---- MODULE Spec2Model ----
(***************************************************************************)
(* A model of celery/canvas.py: the Signature record and its composites    *)
(* (chain, group, chord, xmap, xstarmap, chunks).                          *)
(*                                                                         *)
(* Python objects live in a heap so that sharing is visible:               *)
(*   heap.sigs  : the Signature objects (each a dict with the six wire     *)
(*                keys, plus the instance attributes cls and tasks);       *)
(*   heap.dicts : the mutable mappings (a kwargs or an options dict), each *)
(*                a function from a set of key strings to integers;        *)
(*   heap.seqs  : the tuples and lists (task sequences, link lists);       *)
(*   heap.uuid  : the number of ids uuid() has handed out.                 *)
(* A field that holds an object holds its address (its index in the heap); *)
(* address 0 is None.  A value stored under a dict key is an integer: a    *)
(* scalar, or an address whose sort the key decides (link, link_error,     *)
(* tasks, header, it: a sequence; body: a Signature).                      *)
(* A callback is an integer that stands for the callback's contents, so    *)
(* integer equality is Python's == on callbacks.                           *)
(***************************************************************************)
EXTENDS Integers, Sequences, FiniteSets, TLC

VARIABLES
    heap,    \* the objects
    env,     \* the driver's local names: name -> address
    ret,     \* the last operation and what it returned or raised
    pre,     \* the heap as it was before the last operation
    hist,    \* every (key, callback) passed to append_to_list_option so far
    calls,   \* the calls made to the external collaborators so far
    eager    \* CELERY_ALWAYS_EAGER

vars == <<heap, env, ret, pre, hist, calls, eager>>

None == 0

\* ------------------------------------------------------------ bounds
MaxArgs == 2
MaxOps == 3
MaxHist == 4

Vals == {1, 2}
Callbacks == {1, 2}
KwKeys == {"x", "y"}
OptKeys == {"countdown", "task_id"}
LinkKeys == {"link", "link_error"}

\* ------------------------------------------------------------ heap
EmptyHeap == [sigs |-> <<>>, dicts |-> <<>>, seqs |-> <<>>, uuid |-> 0]

EmptyDict == <<>>

\* dict(a, **b): a new mapping, b winning per key.
dict_overlay(a, b) ==
    [k \in (DOMAIN a) \cup (DOMAIN b) |-> IF k \in DOMAIN b THEN b[k] ELSE a[k]]

\* d[k] = v on a mapping's contents.
dict_put(d, k, v) == dict_overlay(d, k :> v)

NewDict(H) == Len(H.dicts) + 1
AllocDict(H, content) == [H EXCEPT !.dicts = Append(@, content)]

NewSeq(H) == Len(H.seqs) + 1
AllocSeq(H, kind, items) ==
    [H EXCEPT !.seqs = Append(@, [kind |-> kind, items |-> items])]

NewSig(H) == Len(H.sigs) + 1
AllocSig(H, rec) == [H EXCEPT !.sigs = Append(@, rec)]

\* The outcome of a call: the heap after it, the value returned, and the
\* exception raised ("" when the call returned).
Ok(H, v) == [H |-> H, val |-> v, err |-> ""]
Raise(H, e) == [H |-> H, val |-> None, err |-> e]

\* F applied to the value of v, v evaluated once.
Bind(v, F(_)) == CHOOSE y \in {F(r) : r \in {v}} : TRUE

\* ------------------------------------------------------------ Signature
\* The wire keys of a Signature, as dict(self) gives them (__reduce__).
serialize(H, self) ==
    LET s == H.sigs[self] IN
    [task |-> s.task, args |-> s.args, kwargs |-> s.kwargs,
     options |-> s.options, subtask_type |-> s.subtask_type,
     immutable |-> s.immutable]

\* Signature(d) with d a dict: dict.__init__(self, d) copies the six entries
\* as they are (the values are shared with d); _type stays the class default.
Signature_of_dict(H, d) ==
    Ok(AllocSig(H, [cls |-> "Signature", task |-> d.task, args |-> d.args,
                    kwargs |-> d.kwargs, options |-> d.options,
                    subtask_type |-> d.subtask_type,
                    immutable |-> d.immutable,
                    tasks |-> None, _type |-> None]),
       NewSig(H))

\* Signature.__init__ given a task name.  kwargs and options are addresses
\* (None when not given), ex the extra keyword arguments.  "kwargs or {}"
\* keeps the caller's dict unless it is empty; options is always a new dict.
Signature_init(H, cls, task, args, kwargs, options, ex, subtask_type, immutable) ==
    LET freshKw == (kwargs = None) \/ (H.dicts[kwargs] = EmptyDict)
        H1 == IF freshKw THEN AllocDict(H, EmptyDict) ELSE H
        kw == IF freshKw THEN NewDict(H) ELSE kwargs
        base == IF options = None THEN EmptyDict ELSE H.dicts[options]
        H2 == AllocDict(H1, dict_overlay(base, ex))
    IN Ok(AllocSig(H2, [cls |-> cls, task |-> task, args |-> args,
                        kwargs |-> kw, options |-> NewDict(H1),
                        subtask_type |-> subtask_type,
                        immutable |-> immutable,
                        tasks |-> None, _type |-> None]),
          NewSig(H2))

\* Signature._merge: the (args, kwargs, options) an invocation uses.  The
\* overrides are given by their contents.  A branch that returns self.kwargs
\* or self.options returns the stored dict itself, not a copy.
MutantMergeAppend(H, self, args, kwargs, options) ==
    LET s == H.sigs[self] IN
    IF s.immutable
    THEN Ok(AllocDict(H, dict_overlay(H.dicts[s.options], options)),
            [args |-> s.args, kwargs |-> s.kwargs, options |-> NewDict(H)])
    ELSE LET H1 == IF kwargs # EmptyDict
                   THEN AllocDict(H, dict_overlay(H.dicts[s.kwargs], kwargs))
                   ELSE H
             kw == IF kwargs # EmptyDict THEN NewDict(H) ELSE s.kwargs
             H2 == IF options # EmptyDict
                   THEN AllocDict(H1, dict_overlay(H1.dicts[s.options], options))
                   ELSE H1
             op == IF options # EmptyDict THEN NewDict(H1) ELSE s.options
         IN Ok(H2, [args |-> IF args # <<>> THEN s.args \o args ELSE s.args,
                    kwargs |-> kw, options |-> op])

_merge(H, self, args, kwargs, options) ==
    LET s == H.sigs[self] IN
    IF s.immutable
    THEN Ok(AllocDict(H, dict_overlay(H.dicts[s.options], options)),
            [args |-> s.args, kwargs |-> s.kwargs, options |-> NewDict(H)])
    ELSE LET H1 == IF kwargs # EmptyDict
                   THEN AllocDict(H, dict_overlay(H.dicts[s.kwargs], kwargs))
                   ELSE H
             kw == IF kwargs # EmptyDict THEN NewDict(H) ELSE s.kwargs
             H2 == IF options # EmptyDict
                   THEN AllocDict(H1, dict_overlay(H1.dicts[s.options], options))
                   ELSE H1
             op == IF options # EmptyDict THEN NewDict(H1) ELSE s.options
         IN Ok(H2, [args |-> IF args # <<>> THEN args \o s.args ELSE s.args,
                    kwargs |-> kw, options |-> op])

\* Signature.set: flips immutable when one is given (imm is <<>> for None,
\* else <<b>>), updates the options dict in place, returns self.
Signature_set(H, self, imm, options) ==
    LET s == H.sigs[self]
        H1 == IF imm # <<>> THEN [H EXCEPT !.sigs[self].immutable = imm[1]] ELSE H
    IN Ok([H1 EXCEPT !.dicts[s.options] = dict_overlay(@, options)], self)

\* Signature.append_to_list_option, for the keys that hold lists.
MutantAppendNoCheck(H, self, key, value) ==
    LET o == H.sigs[self].options
        fresh == key \notin DOMAIN H.dicts[o]
        H1 == IF fresh
              THEN [AllocSeq(H, "list", <<>>) EXCEPT
                        !.dicts[o] = dict_put(@, key, NewSeq(H))]
              ELSE H
        items == H1.dicts[o][key]
    IN Ok([H1 EXCEPT !.seqs[items].items = Append(@, value)], value)

append_to_list_option(H, self, key, value) ==
    LET o == H.sigs[self].options
        fresh == key \notin DOMAIN H.dicts[o]
        H1 == IF fresh
              THEN [AllocSeq(H, "list", <<>>) EXCEPT
                        !.dicts[o] = dict_put(@, key, NewSeq(H))]
              ELSE H
        items == H1.dicts[o][key]
    IN IF \E i \in 1..Len(H1.seqs[items].items) : H1.seqs[items].items[i] = value
       THEN Ok(H1, value)
       ELSE Ok([H1 EXCEPT !.seqs[items].items = Append(@, value)], value)

Signature_link(H, self, callback) ==
    append_to_list_option(H, self, "link", callback)

Signature_link_error(H, self, errback) ==
    append_to_list_option(H, self, "link_error", errback)

\* ------------------------------------------------------------ composites
\* An argument that may be a descriptor or a sequence is passed with its
\* sort: Sig(a) a Signature (of any class), Sq(a) a list or tuple.
Sig(a) == [k |-> "sig", a |-> a]
Sq(a) == [k |-> "seq", a |-> a]

Addrs(tasks) == [i \in 1..Len(tasks) |-> tasks[i].a]

\* celery.utils.functional.regen on a list or tuple returns it unchanged.
regen(it) == it

\* chain.__init__(*tasks, **options): a lone list argument is unpacked, else
\* the argument tuple itself is the task sequence.
chain_init(H, tasks, options) ==
    LET lone == Len(tasks) = 1 /\ tasks[1].k = "seq"
        H1 == IF lone THEN H ELSE AllocSeq(H, "tuple", Addrs(tasks))
        ts == IF lone THEN tasks[1].a ELSE NewSeq(H)
    IN Bind(Signature_init(AllocDict(H1, "tasks" :> ts), "chain",
                           "celery.chain", <<>>, NewDict(H1), None, options,
                           "", FALSE),
            LAMBDA r : Ok([r.H EXCEPT !.sigs[r.val].tasks = ts,
                                      !.sigs[r.val].subtask_type = "chain"],
                          r.val))

\* _maybe_group(tasks), tasks a group or a list/tuple: a group's members are
\* copied into a new list, a sequence is kept as it is.  (A lone descriptor
\* that is no group is not modelled.)
_maybe_group(H, tasks) ==
    CASE tasks.k = "sig" /\ H.sigs[tasks.a].cls = "group" ->
            Ok(AllocSeq(H, "list", H.seqs[H.sigs[tasks.a].tasks].items),
               NewSeq(H))
      [] tasks.k = "seq" -> Ok(H, regen(tasks.a))

\* group.__init__(*tasks, **options).
group_init(H, tasks, options) ==
    Bind(IF Len(tasks) = 1
         THEN _maybe_group(H, tasks[1])
         ELSE Ok(AllocSeq(H, "tuple", Addrs(tasks)), NewSeq(H)),
         LAMBDA g :
            Bind(Signature_init(AllocDict(g.H, "tasks" :> g.val), "group",
                                "celery.group", <<>>, NewDict(g.H), None,
                                options, "", FALSE),
                 LAMBDA r : Ok([r.H EXCEPT !.sigs[r.val].tasks = g.val,
                                           !.sigs[r.val].subtask_type = "group"],
                               r.val)))

\* chord.__init__(header, body=None, **options); body is a Signature or None
\* (maybe_subtask returns either as it is).
chord_init(H, header, body, options) ==
    Bind(_maybe_group(H, header),
         LAMBDA g :
            Bind(Signature_init(
                    AllocDict(g.H, ("header" :> g.val) @@ ("body" :> body)),
                    "chord", "celery.chord", <<>>, NewDict(g.H), None, options,
                    "", FALSE),
                 LAMBDA r : Ok([r.H EXCEPT !.sigs[r.val].subtask_type = "chord"],
                               r.val)))

\* _basemap.__init__(task, it, **options), for xmap and xstarmap.
basemap_task_name(cls) == IF cls = "xmap" THEN "celery.map" ELSE "celery.starmap"

basemap_init(H, cls, task, it, options) ==
    Signature_init(AllocDict(H, ("task" :> task) @@ ("it" :> regen(it))), cls,
                   basemap_task_name(cls), <<>>, NewDict(H), None, options,
                   "", TRUE)

\* chunks.__init__(task, it, n, **options).
chunks_init(H, task, it, n, options) ==
    Signature_init(
        AllocDict(H, ("task" :> task) @@ ("it" :> regen(it)) @@ ("n" :> n)),
        "chunks", "celery.chunks", <<>>, NewDict(H), None, options, "", TRUE)

\* The tasks attribute: set by chain and group, a property of chord
\* (kwargs['header']), missing on every other class.
tasks_attr(H, self) ==
    LET s == H.sigs[self] IN
    CASE s.cls \in {"chain", "group"} -> Ok(H, s.tasks)
      [] s.cls = "chord" -> Ok(H, H.dicts[s.kwargs]["header"])
      [] OTHER -> Raise(H, "AttributeError")

\* chord.body: kwargs.get('body').
chord_body(H, self) ==
    LET kw == H.dicts[H.sigs[self].kwargs] IN
    IF "body" \in DOMAIN kw THEN kw["body"] ELSE None

\* ------------------------------------------------------------ from_dict
\* Signature.register_type: TYPES[name or subclass.__name__] = subclass.
register_type(types, subclass) == dict_put(types, subclass, subclass)

\* TYPES once the module is loaded (lines 221, 249, 258, 287, 327, 383).
TYPES ==
    register_type(register_type(register_type(register_type(register_type(
    register_type(EmptyDict, "chain"), "xmap"), "xstarmap"), "chunks"),
    "group"), "chord")

SigItems(H, a) == [i \in 1..Len(H.seqs[a].items) |-> Sig(H.seqs[a].items[i])]

\* chain.from_dict: chain(*d['kwargs']['tasks'], **kwdict(d['options'])).
chain_from_dict(H, d) ==
    LET kw == H.dicts[d.kwargs] IN
    IF "tasks" \notin DOMAIN kw THEN Raise(H, "KeyError")
    ELSE chain_init(H, SigItems(H, kw["tasks"]), H.dicts[d.options])

\* group.from_dict: group(d['kwargs']['tasks'], **kwdict(d['options'])).
group_from_dict(H, d) ==
    LET kw == H.dicts[d.kwargs] IN
    IF "tasks" \notin DOMAIN kw THEN Raise(H, "KeyError")
    ELSE group_init(H, <<Sq(kw["tasks"])>>, H.dicts[d.options])

\* chord.from_dict: chord(kwargs['header'], kwargs.get('body'), **options).
chord_from_dict(H, d) ==
    LET kw == H.dicts[d.kwargs] IN
    IF "header" \notin DOMAIN kw THEN Raise(H, "KeyError")
    ELSE chord_init(H, Sq(kw["header"]),
                    IF "body" \in DOMAIN kw THEN kw["body"] ELSE None,
                    H.dicts[d.options])

\* _basemap.from_dict (xmap, xstarmap): chunks(task, it, **options), which
\* lacks chunks' third argument n.
basemap_from_dict(H, d) ==
    LET kw == H.dicts[d.kwargs] IN
    IF {"task", "it"} \subseteq DOMAIN kw THEN Raise(H, "TypeError")
    ELSE Raise(H, "KeyError")

\* chunks.from_dict: chunks(task, it, n, **options).
chunks_from_dict(H, d) ==
    LET kw == H.dicts[d.kwargs] IN
    IF {"task", "it", "n"} \subseteq DOMAIN kw
    THEN chunks_init(H, kw["task"], kw["it"], kw["n"], H.dicts[d.options])
    ELSE Raise(H, "KeyError")

class_from_dict(cls, H, d) ==
    CASE cls = "chain" -> chain_from_dict(H, d)
      [] cls = "group" -> group_from_dict(H, d)
      [] cls = "chord" -> chord_from_dict(H, d)
      [] cls \in {"xmap", "xstarmap"} -> basemap_from_dict(H, d)
      [] cls = "chunks" -> chunks_from_dict(H, d)

\* What from_dict answers: a call's outcome, and the class whose from_dict
\* it handed the record to ("" when it handed it to none).
Via(r, cls) ==
    Bind(r, LAMBDA v : [H |-> v.H, val |-> v.val, err |-> v.err, via |-> cls])

\* Signature.from_dict.  subtask_type "" stands for None (both are falsy).
MutantFromDictFallback(H, d) ==
    LET typ == d.subtask_type IN
    IF typ # "" /\ typ \in DOMAIN TYPES
    THEN Via(class_from_dict(TYPES[typ], H, d), TYPES[typ])
    ELSE Via(Signature_of_dict(H, d), "")

from_dict(H, d) ==
    LET typ == d.subtask_type IN
    IF typ # ""
    THEN IF typ \in DOMAIN TYPES
         THEN Via(class_from_dict(TYPES[typ], H, d), TYPES[typ])
         ELSE Via(Raise(H, "KeyError"), "")
    ELSE Via(Signature_of_dict(H, d), "")

\* ------------------------------------------------------------ clone
\* Signature.clone(args, kwargs, **options).
clone(H, self, args, kwargs, options) ==
    Bind(_merge(H, self, args, kwargs, options),
         LAMBDA m :
            Bind(from_dict(m.H, [task |-> H.sigs[self].task,
                                 args |-> m.val.args,
                                 kwargs |-> m.val.kwargs,
                                 options |-> m.val.options,
                                 subtask_type |-> H.sigs[self].subtask_type,
                                 immutable |-> H.sigs[self].immutable]),
                 LAMBDA s :
                    IF s.err # "" THEN Raise(s.H, s.err)
                    ELSE Ok([s.H EXCEPT !.sigs[s.val]._type = H.sigs[self]._type],
                            s.val)))

\* chord.clone: Signature.clone, then the clone's body replaced by a clone of
\* it; a missing body (None, or no 'body' key) is passed over.  (The body is
\* cloned by its own class's clone; a body here is never itself a chord.)
chord_clone(H, self, args, kwargs, options) ==
    Bind(clone(H, self, args, kwargs, options),
         LAMBDA s :
            IF s.err # "" THEN s
            ELSE LET kwa == s.H.sigs[s.val].kwargs
                     kw == s.H.dicts[kwa]
                     body == IF "body" \in DOMAIN kw THEN kw["body"] ELSE None
                 IN IF body = None THEN s
                    ELSE Bind(clone(s.H, body, <<>>, EmptyDict, EmptyDict),
                              LAMBDA b :
                                CASE b.err = "" ->
                                        Ok([b.H EXCEPT !.dicts[kwa] =
                                                dict_put(@, "body", b.val)],
                                           s.val)
                                  [] b.err \in {"AttributeError", "KeyError"} ->
                                        Ok(b.H, s.val)
                                  [] OTHER -> b))

\* chord.link and chord.link_error: forwarded to the body.
chord_link(H, self, callback) ==
    LET body == chord_body(H, self) IN
    IF body = None THEN Raise(H, "AttributeError")
    ELSE Ok(Signature_link(H, body, callback).H, callback)

chord_link_error(H, self, errback) ==
    LET body == chord_body(H, self) IN
    IF body = None THEN Raise(H, "AttributeError")
    ELSE Ok(Signature_link_error(H, body, errback).H, errback)

\* ------------------------------------------------------------ __or__
NotImplemented == -1

\* a + b on two sequences: tuple + tuple and list + list concatenate into a
\* new sequence of the same kind, a tuple and a list do not add.
seq_add(H, a, b) ==
    IF H.seqs[a].kind = H.seqs[b].kind
    THEN Ok(AllocSeq(H, H.seqs[a].kind, H.seqs[a].items \o H.seqs[b].items),
            NewSeq(H))
    ELSE Raise(H, "TypeError")

\* Signature.__or__(self, other); other is passed with its sort.
__or__(H, self, other) ==
    IF other.k = "sig" /\ H.sigs[other.a].cls = "chain"
    THEN Bind(tasks_attr(H, self),
              LAMBDA st :
                IF st.err # "" THEN st
                ELSE Bind(seq_add(H, st.val, H.sigs[other.a].tasks),
                          LAMBDA sum :
                            IF sum.err # "" THEN sum
                            ELSE chain_init(sum.H, SigItems(sum.H, sum.val),
                                            EmptyDict)))
    ELSE IF other.k = "sig"
    THEN IF H.sigs[self].cls = "chain"
         THEN Bind(seq_add(AllocSeq(H, "tuple", <<other.a>>),
                           H.sigs[self].tasks, NewSeq(H)),
                   LAMBDA sum :
                     IF sum.err # "" THEN sum
                     ELSE chain_init(sum.H, SigItems(sum.H, sum.val), EmptyDict))
         ELSE chain_init(H, <<Sig(self), other>>, EmptyDict)
    ELSE Ok(H, NotImplemented)

\* ------------------------------------------------------------ driver
SeqsUpTo(S, n) == UNION {[1..k -> S] : k \in 0..n}
PartialFns(K, V) == UNION {[S -> V] : S \in SUBSET K}

\* A mapping with the sequences it holds read out: what == compares.
SeqKeys == LinkKeys \cup {"tasks", "header", "it"}
DeepDict(H, a) ==
    [k \in DOMAIN H.dicts[a] |->
        IF k \in SeqKeys THEN H.seqs[H.dicts[a][k]].items ELSE H.dicts[a][k]]

\* The stored args, kwargs and options of a Signature, by contents.
Contents(H, self) ==
    [args |-> H.sigs[self].args,
     kwargs |-> DeepDict(H, H.sigs[self].kwargs),
     options |-> DeepDict(H, H.sigs[self].options)]

Start(H, e) ==
    /\ heap = H
    /\ env = e
    /\ ret = [op |-> "init", n |-> 0]
    /\ pre = H
    /\ hist = <<>>
    /\ calls = <<>>

\* One operation of the driver: the heap it leaves, and its record.
Step(r, rec) ==
    /\ heap' = r.H
    /\ pre' = heap
    /\ ret' = rec

\* ------------------------------------------------------------ SpecMerge
\* One descriptor d, then one _merge or one apply on it.
InitMerge ==
    \E args \in SeqsUpTo(Vals, MaxArgs), kw \in PartialFns(KwKeys, {1}),
       opts \in PartialFns(OptKeys, {1}), imm \in BOOLEAN :
        \E r \in {Signature_init(AllocDict(EmptyHeap, kw), "Signature", "t",
                                 args,
                                 IF kw = EmptyDict THEN None
                                 ELSE NewDict(EmptyHeap),
                                 None, opts, "", imm)} :
            /\ Start(r.H, "d" :> r.val)
            /\ eager = FALSE

Merge ==
    /\ ret.op = "init"
    /\ \E args \in SeqsUpTo(Vals, MaxArgs), kw \in PartialFns(KwKeys, {2}),
          opts \in PartialFns(OptKeys, {2}) :
        \E r \in {_merge(heap, env["d"], args, kw, opts)} :
        Step(r, [op |-> "merge", self |-> env["d"],
                 args |-> args, kwargs |-> kw, options |-> opts,
                 val |-> r.val, err |-> r.err])
    /\ UNCHANGED <<env, hist, calls, eager>>

\* Signature.apply: merge, then the task's apply with the merged triple (the
\* task is external: the call is logged).
Signature_apply(H, self, args, kwargs, options) ==
    Bind(_merge(H, self, args, kwargs, options),
         LAMBDA m :
            [H |-> m.H, val |-> None, err |-> "",
             call |-> [to |-> "task.apply", args |-> m.val.args,
                       kwargs |-> m.H.dicts[m.val.kwargs],
                       options |-> m.H.dicts[m.val.options]]])

Apply ==
    /\ ret.op = "init"
    /\ \E args \in SeqsUpTo(Vals, MaxArgs), kw \in PartialFns(KwKeys, {2}),
          opts \in PartialFns(OptKeys, {2}) :
        \E r \in {Signature_apply(heap, env["d"], args, kw, opts)} :
        /\ Step(r, [op |-> "apply", self |-> env["d"],
                    args |-> args, kwargs |-> kw, options |-> opts,
                    val |-> r.val, err |-> r.err])
        /\ calls' = Append(calls, r.call)
    /\ UNCHANGED <<env, hist, eager>>

NextMerge == Merge \/ Apply

SpecMerge == InitMerge /\ [][NextMerge]_vars

\* res is base overlaid with ovr: ovr's value under each key ovr has, base's
\* under every other key base has, and no further key.
Overlaid(res, base, ovr) ==
    /\ DOMAIN res = (DOMAIN base) \cup (DOMAIN ovr)
    /\ \A k \in DOMAIN ovr : res[k] = ovr[k]
    /\ \A k \in (DOMAIN base) \ (DOMAIN ovr) : res[k] = base[k]

\* C1: _merge on an immutable descriptor returns the stored args and kwargs
\* and the stored options overlaid with the override; on a mutable one the
\* override args followed by the stored args, and the stored kwargs and
\* options each overlaid with its override; the descriptor's own args,
\* kwargs and options are the same after the call as before it.
C1_Merge ==
    ret.op = "merge" =>
        LET s == pre.sigs[ret.self]
            kw == heap.dicts[ret.val.kwargs]
            op == heap.dicts[ret.val.options]
        IN /\ ret.err = ""
           /\ Overlaid(op, pre.dicts[s.options], ret.options)
           /\ s.immutable =>
                /\ ret.val.args = s.args
                /\ kw = pre.dicts[s.kwargs]
           /\ ~s.immutable =>
                /\ Len(ret.val.args) = Len(ret.args) + Len(s.args)
                /\ \A i \in 1..Len(ret.args) : ret.val.args[i] = ret.args[i]
                /\ \A i \in 1..Len(s.args) :
                        ret.val.args[Len(ret.args) + i] = s.args[i]
                /\ Overlaid(kw, pre.dicts[s.kwargs], ret.kwargs)
           /\ Contents(heap, ret.self) = Contents(pre, ret.self)
           /\ heap.sigs[ret.self] = s

\* A mutable descriptor with stored args, kwargs and options, merged with a
\* different args override and with overrides of keys it already holds.
C1_Witness ==
    /\ ret.op = "merge"
    /\ ~pre.sigs[ret.self].immutable
    /\ pre.sigs[ret.self].args = <<1, 2>>
    /\ ret.args = <<2>>
    /\ ret.val.args = <<2, 1, 2>>
    /\ DOMAIN ret.kwargs = {"x"}
    /\ DOMAIN pre.dicts[pre.sigs[ret.self].kwargs] = {"x", "y"}
    /\ DOMAIN ret.options = {"countdown"}
    /\ "countdown" \in DOMAIN pre.dicts[pre.sigs[ret.self].options]

\* ------------------------------------------------------------ SpecLink
\* A freshly constructed descriptor d (a plain Signature, an empty chain or
\* an empty group: the classes that use Signature's own link methods), then
\* link, link_error and append_to_list_option calls on it.
InitLink ==
    \E cls \in {"Signature", "chain", "group"},
       opts \in PartialFns(OptKeys, {1}), imm \in BOOLEAN :
        \E r \in {CASE cls = "Signature" ->
                        Signature_init(EmptyHeap, "Signature", "t", <<>>, None,
                                       None, opts, "", imm)
                    [] cls = "chain" -> chain_init(EmptyHeap, <<>>, opts)
                    [] cls = "group" -> group_init(EmptyHeap, <<>>, opts)} :
            /\ Start(r.H, "d" :> r.val)
            /\ eager = FALSE

LinkStep(name, res, key, value) ==
    \E r \in {res} :
        /\ Step(r, [op |-> name, self |-> env["d"], key |-> key,
                    value |-> value, val |-> r.val, err |-> r.err])
        /\ hist' = Append(hist, <<key, value>>)
        /\ UNCHANGED <<env, calls, eager>>

Link ==
    /\ Len(hist) < MaxHist
    /\ \E cb \in Callbacks :
        LinkStep("link", Signature_link(heap, env["d"], cb), "link", cb)

LinkError ==
    /\ Len(hist) < MaxHist
    /\ \E cb \in Callbacks :
        LinkStep("link_error", Signature_link_error(heap, env["d"], cb),
                 "link_error", cb)

AppendToListOption ==
    /\ Len(hist) < MaxHist
    /\ \E key \in LinkKeys, cb \in Callbacks :
        LinkStep("append_to_list_option",
                 append_to_list_option(heap, env["d"], key, cb), key, cb)

NextLink == Link \/ LinkError \/ AppendToListOption

SpecLink == InitLink /\ [][NextLink]_vars

\* The callbacks passed so far for a key, in call order.
RECURSIVE Passed(_, _)
Passed(h, key) ==
    IF h = <<>> THEN <<>>
    ELSE IF h[1][1] = key THEN <<h[1][2]>> \o Passed(Tail(h), key)
    ELSE Passed(Tail(h), key)

\* The first position of value v in sequence q (0 when absent).
FirstIdx(q, v) ==
    IF \E i \in 1..Len(q) : q[i] = v
    THEN CHOOSE i \in 1..Len(q) : q[i] = v /\ \A j \in 1..(i - 1) : q[j] # v
    ELSE 0

\* The list stored under an options key of d ("<<>>" when the key is unset).
ListOption(H, self, key) ==
    LET o == H.dicts[H.sigs[self].options] IN
    IF key \in DOMAIN o THEN H.seqs[o[key]].items ELSE <<>>

\* C8: after any sequence of link, link_error and append_to_list_option calls
\* on a fresh descriptor, the list under each of options[link] and
\* options[link_error] has no two equal entries, holds exactly the callbacks
\* passed for that key, in the order in which each was first passed; and each
\* call returns the callback it was given.
C8_LinkLists ==
    /\ \A key \in LinkKeys :
        LET L == ListOption(heap, env["d"], key)
            P == Passed(hist, key)
        IN /\ \A i, j \in 1..Len(L) : i # j => L[i] # L[j]
           /\ \A i \in 1..Len(P) : \E j \in 1..Len(L) : L[j] = P[i]
           /\ \A j \in 1..Len(L) : \E i \in 1..Len(P) : P[i] = L[j]
           /\ \A i, j \in 1..Len(L) :
                i < j => FirstIdx(P, L[i]) < FirstIdx(P, L[j])
    /\ ret.op # "init" => ret.err = "" /\ ret.val = ret.value

\* The same callback linked twice with another one in between: one entry
\* each, in first-insertion order.
C8_Witness ==
    /\ Passed(hist, "link") = <<1, 2, 1>>
    /\ ListOption(heap, env["d"], "link") = <<1, 2>>
    /\ Passed(hist, "link_error") = <<2>>

\* ------------------------------------------------------------ worlds
\* Three plain member descriptors a, b and c, and a descriptor x of the given
\* variant built over them by the class's constructor.
Variants ==
    {"Signature", "chain", "chain_list", "group", "group_list", "chord",
     "chord_nobody", "xmap", "xstarmap", "chunks"}

Members ==
    Bind(Signature_init(EmptyHeap, "Signature", "a", <<>>, None, None,
                        EmptyDict, "", FALSE),
         LAMBDA a :
    Bind(Signature_init(a.H, "Signature", "b", <<>>, None, None,
                        EmptyDict, "", FALSE),
         LAMBDA b :
    Bind(Signature_init(b.H, "Signature", "c", <<>>, None, None,
                        EmptyDict, "", FALSE),
         LAMBDA c : [H |-> c.H, a |-> a.val, b |-> b.val, c |-> c.val])))

Construct(M, v, opts) ==
    LET L2 == AllocSeq(M.H, "list", <<M.a, M.b>>)
        L1 == AllocSeq(M.H, "list", <<M.a>>)
        It == AllocSeq(M.H, "list", <<1, 2>>)
        K == AllocDict(M.H, "x" :> 1)
        l == NewSeq(M.H)
    IN CASE v = "Signature" ->
                Signature_init(K, "Signature", "t", <<1>>, NewDict(M.H), None,
                               opts, "", FALSE)
         [] v = "chain" -> chain_init(M.H, <<Sig(M.a), Sig(M.b)>>, opts)
         [] v = "chain_list" -> chain_init(L2, <<Sq(l)>>, opts)
         [] v = "group" -> group_init(M.H, <<Sig(M.a), Sig(M.b)>>, opts)
         [] v = "group_list" -> group_init(L2, <<Sq(l)>>, opts)
         [] v = "chord" -> chord_init(L1, Sq(l), M.b, opts)
         [] v = "chord_nobody" -> chord_init(L1, Sq(l), None, opts)
         [] v \in {"xmap", "xstarmap"} -> basemap_init(It, v, 1, l, opts)
         [] v = "chunks" -> chunks_init(It, 1, l, 2, opts)

World(v, opts) ==
    \E M \in {Members} :
        \E x \in {Construct(M, v, opts)} :
            Start(x.H, ("x" :> x.val) @@ ("a" :> M.a) @@ ("b" :> M.b)
                       @@ ("c" :> M.c))

\* The in-place mutators, by the class of the receiver.
set_of(H, self, imm, options) == Signature_set(H, self, imm, options)

link_of(H, self, callback) ==
    IF H.sigs[self].cls = "chord" THEN chord_link(H, self, callback)
    ELSE Signature_link(H, self, callback)

link_error_of(H, self, errback) ==
    IF H.sigs[self].cls = "chord" THEN chord_link_error(H, self, errback)
    ELSE Signature_link_error(H, self, errback)

\* ------------------------------------------------------------ invocation
\* celery.utils.uuid(): an id no earlier call returned and no stored option
\* holds (stored ids are positive).
uuid(H) == Ok([H EXCEPT !.uuid = @ + 1], -(H.uuid + 1))

\* map(Signature.clone, tasks): Signature.clone on each member in turn
\* (step[i] is the outcome once the first i members are cloned).
clone_each(H, members) ==
    LET step[i \in 0..Len(members)] ==
            IF i = 0 THEN Ok(H, <<>>)
            ELSE Bind(step[i - 1],
                      LAMBDA p :
                        IF p.err # "" THEN p
                        ELSE Bind(clone(p.H, members[i], <<>>, EmptyDict,
                                        EmptyDict),
                                  LAMBDA c :
                                    IF c.err # "" THEN c
                                    ELSE Ok(c.H, Append(p.val, c.val))))
    IN step[Len(members)]

\* The group task's prepare (external): it writes the group id and a fresh
\* correlation id into the options of each member it is handed.
prepare_members(H, tasks, gid) ==
    LET step[i \in 0..Len(tasks)] ==
            IF i = 0 THEN H
            ELSE Bind(uuid(step[i - 1]),
                      LAMBDA u :
                        [u.H EXCEPT !.dicts[H.sigs[tasks[i]].options] =
                            dict_put(dict_put(@, "group_id", gid),
                                     "task_id", u.val)])
    IN step[Len(tasks)]

prepare(H, options, tasks, partial_args) ==
    Bind(uuid(H),
         LAMBDA g : Ok(prepare_members(g.H, tasks, g.val),
                       [tasks |-> tasks, result |-> [group_result |-> g.val],
                        gid |-> g.val, args |-> partial_args]))

\* The group task called with what prepare returned (external): it sends
\* the prepared members and answers with the result handle of the group.
group_task(H, tasks, result, gid, args) == Ok(H, result)

\* group.__call__(*partial_args, **options): clones of the members go to
\* prepare with the options and the partial args; the group task is then
\* called with the four values prepare returned, and its answer is the
\* answer of the invocation.  calls lists the two collaborator calls.
group_call(H, self, partial_args, options) ==
    Bind(clone_each(H, H.seqs[H.sigs[self].tasks].items),
         LAMBDA cs :
            IF cs.err # ""
            THEN [H |-> cs.H, val |-> None, err |-> cs.err, handed |-> <<>>,
                  calls |-> <<>>]
            ELSE Bind(prepare(cs.H, options, cs.val, partial_args),
                      LAMBDA p :
                        Bind(group_task(p.H, p.val.tasks, p.val.result,
                                        p.val.gid, p.val.args),
                             LAMBDA t :
                                [H |-> t.H, val |-> t.val, err |-> t.err,
                                 handed |-> cs.val,
                                 calls |-> <<[to |-> "group.prepare",
                                              args |-> <<options, cs.val,
                                                         partial_args>>],
                                             [to |-> "group",
                                              args |-> <<p.val.tasks,
                                                         p.val.result,
                                                         p.val.gid,
                                                         p.val.args>>]>>])))

\* chord.__call__(body=None, **options), body given as an address or None.
\* A Signature is a non-empty dict, so "body or ..." keeps a body given.
\* The collaborator is called with **self.kwargs; the eager branch applies
\* the chord itself with the options.
chord_call(H, self, body, options, always_eager) ==
    LET kwa == H.sigs[self].kwargs
        b == IF body # None THEN body ELSE H.dicts[kwa]["body"]
        H1 == [H EXCEPT !.dicts[kwa] = dict_put(@, "body", b)]
    IN IF always_eager
       THEN Bind(Signature_apply(H1, self, <<>>, EmptyDict, options),
                 LAMBDA a : [H |-> a.H, val |-> a.val, err |-> a.err,
                             calls |-> <<a.call>>])
       ELSE IF b = None
       THEN [H |-> H1, val |-> None, err |-> "AttributeError", calls |-> <<>>]
       ELSE LET u == uuid(H1)
                o == H1.sigs[b].options
                H2 == IF "task_id" \in DOMAIN H1.dicts[o] THEN u.H
                      ELSE [u.H EXCEPT !.dicts[o] = dict_put(@, "task_id", u.val)]
                callback_id == H2.dicts[o]["task_id"]
            IN [H |-> H2, val |-> callback_id, err |-> "",
                calls |-> <<[to |-> "Chord", kwargs |-> H2.dicts[kwa],
                             body_id |-> callback_id]>>]

\* group.skew(start, stop=None, step): member i (from 0) gets countdown
\* start + i * step; returns self.
skew_from(H, tasks, start, step) ==
    LET at[i \in 0..Len(tasks)] ==
            IF i = 0 THEN H
            ELSE set_of(at[i - 1], tasks[i], <<>>,
                        "countdown" :> (start + (i - 1) * step)).H
    IN at[Len(tasks)]

skew(H, self, start, step) ==
    Ok(skew_from(H, H.seqs[H.sigs[self].tasks].items, start, step), self)

\* clone, by the class of the receiver.
clone_of(H, self, args, kwargs, options) ==
    IF H.sigs[self].cls = "chord" THEN chord_clone(H, self, args, kwargs, options)
    ELSE clone(H, self, args, kwargs, options)

\* ------------------------------------------------------------ SpecSerial
\* A descriptor x of any variant, in-place mutators on it (set, link,
\* link_error, and skew on a group), then either a serialize/deserialize
\* round trip of x, or from_dict on x's record with its subtask_type
\* replaced (a record off the wire with any tag).
Tags == {"", "chain", "group", "chord", "xmap", "xstarmap", "chunks", "bogus"}

InitSerial ==
    /\ \E v \in Variants, opts \in PartialFns(OptKeys, {1}) : World(v, opts)
    /\ eager = FALSE

Mutating == ret.op \in {"init", "set", "link", "link_error", "skew"}

\* A mutator step on x: what it was given (arg) and what it answered.
Mutate(name, arg, res) ==
    /\ Mutating
    /\ ret.n < MaxOps
    /\ \E r \in {res} :
        /\ heap' = r.H
        /\ ret' = [op |-> name, n |-> ret.n + 1, arg |-> arg, val |-> r.val,
                   err |-> r.err]
    /\ UNCHANGED <<env, pre, hist, calls, eager>>

SerialSet ==
    \E imm \in {<<>>, <<TRUE>>}, opts \in PartialFns(OptKeys, {2}) :
        Mutate("set", None, set_of(heap, env["x"], imm, opts))

SerialLink ==
    \E cb \in Callbacks : Mutate("link", cb, link_of(heap, env["x"], cb))

SerialLinkError ==
    \E cb \in Callbacks :
        Mutate("link_error", cb, link_error_of(heap, env["x"], cb))

Skew ==
    /\ heap.sigs[env["x"]].cls = "group"
    /\ \E start \in {0, 1} : Mutate("skew", start, skew(heap, env["x"], start, 1))

RoundTrip ==
    /\ Mutating
    /\ \E r \in {from_dict(heap, serialize(heap, env["x"]))} :
        Step(r, [op |-> "roundtrip", self |-> env["x"], val |-> r.val,
                 err |-> r.err])
    /\ UNCHANGED <<env, hist, calls, eager>>

FromDict ==
    /\ Mutating
    /\ \E tag \in Tags :
        \E d \in {[serialize(heap, env["x"]) EXCEPT !.subtask_type = tag]} :
            \E r \in {from_dict(heap, d)} :
                Step(r, [op |-> "from_dict", d |-> d, val |-> r.val,
                         err |-> r.err, via |-> r.via])
    /\ UNCHANGED <<env, hist, calls, eager>>

NextSerial ==
    SerialSet \/ SerialLink \/ SerialLinkError \/ Skew \/ RoundTrip \/ FromDict

SpecSerial == InitSerial /\ [][NextSerial]_vars

\* The six wire fields of two descriptors are equal (mappings and the
\* sequences in them compared by contents, as == does).
FieldsEqual(H, x, y) ==
    /\ H.sigs[x].task = H.sigs[y].task
    /\ H.sigs[x].args = H.sigs[y].args
    /\ H.sigs[x].subtask_type = H.sigs[y].subtask_type
    /\ H.sigs[x].immutable = H.sigs[y].immutable
    /\ DeepDict(H, H.sigs[x].kwargs) = DeepDict(H, H.sigs[y].kwargs)
    /\ DeepDict(H, H.sigs[x].options) = DeepDict(H, H.sigs[y].options)

\* C4: for a descriptor of any variant, after any sequence of in-place
\* mutators, deserialize(serialize(x)) completes and its task, args, kwargs,
\* options, subtask_type and immutable equal x's.
C4_RoundTrip ==
    ret.op = "roundtrip" =>
        /\ ret.err = ""
        /\ FieldsEqual(heap, ret.self, ret.val)

\* The factories registered at module load.
Registered == {"chain", "group", "chord", "xmap", "xstarmap", "chunks"}

\* from_dict built a plain Signature holding the record's fields.
PlainFrom(H, r) ==
    /\ r.err = ""
    /\ r.via = ""
    /\ H.sigs[r.val].cls = "Signature"
    /\ serialize(H, r.val) = r.d

\* C7 as stated: from_dict hands the record to the registered factory exactly
\* when its subtask_type is present and registered, and in every other case
\* (an unregistered tag included) returns a plain Signature of the record.
C7_Original ==
    ret.op = "from_dict" =>
        IF ret.d.subtask_type \in Registered
        THEN ret.via = ret.d.subtask_type
        ELSE PlainFrom(heap, ret)

\* C7 as amended: from_dict hands the record to the registered factory
\* exactly when its subtask_type is present and registered; with no
\* subtask_type it returns a plain Signature of the record; with a
\* subtask_type that is not registered it raises KeyError and builds nothing.
C7_Dispatch ==
    ret.op = "from_dict" =>
        CASE ret.d.subtask_type \in Registered ->
                ret.via = ret.d.subtask_type
          [] ret.d.subtask_type = "" -> PlainFrom(heap, ret)
          [] OTHER -> /\ ret.err = "KeyError"
                      /\ ret.via = ""
                      /\ heap = pre

\* from_dict has been given a record whose tag has no registered factory.
C7_Witness ==
    /\ ret.op = "from_dict"
    /\ ret.d.subtask_type = "bogus"
    /\ ret.err = "KeyError"

\* C10: set, link and link_error complete without error on a descriptor of
\* every constructible variant (a chord without a body included) and return
\* their handle (set the descriptor, link and link_error the callback); skew
\* completes on every group and returns the group.
C10_MutatorsNeverFail ==
    ret.op \in {"set", "link", "link_error", "skew"} =>
        /\ ret.err = ""
        /\ ret.op \in {"set", "skew"} => ret.val = env["x"]
        /\ ret.op \in {"link", "link_error"} => ret.val = ret.arg


\* ------------------------------------------------------------ SpecCompose
\* The members a, b, c and a descriptor x of any variant; then compositions
\* self | other over the descriptors built so far, other also a plain list.
MaxCompose == 2

InitCompose ==
    /\ \E v \in Variants : World(v, EmptyDict)
    /\ eager = FALSE

Or ==
    /\ ret.n < MaxCompose
    /\ \E self \in 1..Len(heap.sigs),
          other \in {Sig(a) : a \in 1..Len(heap.sigs)}
                    \cup {Sq(a) : a \in 1..Len(heap.seqs)} :
        \E r \in {__or__(heap, self, other)} :
        Step(r, [op |-> "or", n |-> ret.n + 1, self |-> self, other |-> other,
                 val |-> r.val, err |-> r.err])
    /\ UNCHANGED <<env, hist, calls, eager>>

NextCompose == Or

SpecCompose == InitCompose /\ [][NextCompose]_vars

\* The members of an operand: a chain's tasks, a plain descriptor itself.
OperandMembers(H, x) ==
    IF H.sigs[x].cls = "chain" THEN H.seqs[H.sigs[x].tasks].items ELSE <<x>>

PlainOrChain(H, x) == H.sigs[x].cls \in {"Signature", "chain"}

\* C3: composing two operands that are each a plain descriptor or a chain
\* completes and yields one chain whose tasks are the left operand's members
\* followed by the right operand's members, so that (a|b)|c and a|(b|c) both
\* hold exactly [a, b, c].
C3_Flatten ==
    (/\ ret.op = "or"
     /\ ret.other.k = "sig"
     /\ PlainOrChain(pre, ret.self)
     /\ PlainOrChain(pre, ret.other.a)) =>
        /\ ret.err = ""
        /\ heap.sigs[ret.val].cls = "chain"
        /\ heap.seqs[heap.sigs[ret.val].tasks].items =
                OperandMembers(pre, ret.self) \o OperandMembers(pre, ret.other.a)

\* ------------------------------------------------------------ SpecCopy
\* A descriptor x of any variant and in-place mutators on it; then x.clone()
\* into s and in-place mutations of s (or of s's body, for a chord), or
\* invocations of x when x is a group.
InitCopy ==
    /\ \E v \in Variants, opts \in PartialFns(OptKeys, {1}) : World(v, opts)
    /\ eager = FALSE

Cloned == "s" \in DOMAIN env

Clone ==
    /\ Mutating
    /\ ret.n < MaxOps
    /\ \E args \in {<<>>, <<2>>}, kw \in PartialFns({"x"}, {2}),
          opts \in PartialFns({"countdown"}, {2}) :
        \E r \in {clone_of(heap, env["x"], args, kw, opts)} :
        /\ r.err = ""
        /\ Step(r, [op |-> "clone", n |-> ret.n + 1, self |-> env["x"],
                    val |-> r.val, err |-> r.err])
        /\ env' = env @@ ("s" :> r.val)
    /\ UNCHANGED <<hist, calls, eager>>

\* What a mutation of the clone may be aimed at: s, and s's body.
CloneTargets ==
    {env["s"]} \cup
    (IF heap.sigs[env["s"]].cls = "chord" /\ chord_body(heap, env["s"]) # None
     THEN {chord_body(heap, env["s"])} ELSE {})

AfterClone(name, target, res) ==
    \E r \in {res} :
        /\ Step(r, [op |-> name, n |-> ret.n + 1, self |-> target,
                    val |-> r.val, err |-> r.err])
        /\ UNCHANGED <<env, hist, calls, eager>>

CloneSet ==
    /\ Cloned /\ ret.n < MaxOps
    /\ \E t \in CloneTargets, opts \in PartialFns(OptKeys, {2}) \ {EmptyDict} :
        AfterClone("s.set", t, set_of(heap, t, <<>>, opts))

CloneLink ==
    /\ Cloned /\ ret.n < MaxOps
    /\ \E t \in CloneTargets, cb \in Callbacks :
        AfterClone("s.link", t, link_of(heap, t, cb))

CloneLinkError ==
    /\ Cloned /\ ret.n < MaxOps
    /\ \E t \in CloneTargets, cb \in Callbacks :
        AfterClone("s.link_error", t, link_error_of(heap, t, cb))

\* s.kwargs[k] = v and s.options[k] = v.
CloneWriteKwargs ==
    /\ Cloned /\ ret.n < MaxOps
    /\ \E t \in CloneTargets :
        AfterClone("s.kwargs[]=", t,
            Ok([heap EXCEPT !.dicts[heap.sigs[t].kwargs] = dict_put(@, "y", 2)],
               None))

CloneWriteOptions ==
    /\ Cloned /\ ret.n < MaxOps
    /\ \E t \in CloneTargets :
        AfterClone("s.options[]=", t,
            Ok([heap EXCEPT !.dicts[heap.sigs[t].options] =
                    dict_put(@, "countdown", 2)], None))

GroupCall ==
    /\ Mutating \/ ret.op = "group_call"
    /\ ret.n < MaxOps
    /\ heap.sigs[env["x"]].cls = "group"
    /\ \E partial_args \in SeqsUpTo({1}, 1), opts \in PartialFns({"countdown"}, {2}) :
        \E r \in {group_call(heap, env["x"], partial_args, opts)} :
            /\ Step(r, [op |-> "group_call", n |-> ret.n + 1,
                        self |-> env["x"], val |-> r.val, err |-> r.err,
                        handed |-> r.handed, calls |-> r.calls])
            /\ calls' = calls \o r.calls
    /\ UNCHANGED <<env, hist, eager>>

NextCopy ==
    \/ SerialSet \/ SerialLink \/ SerialLinkError \/ Skew
    \/ Clone
    \/ CloneSet \/ CloneLink \/ CloneLinkError
    \/ CloneWriteKwargs \/ CloneWriteOptions
    \/ GroupCall

SpecCopy == InitCopy /\ [][NextCopy]_vars

CloneMutations ==
    {"s.set", "s.link", "s.link_error", "s.kwargs[]=", "s.options[]="}

\* C2: after s = d.clone(...), an in-place mutation of s (set, link,
\* link_error, or a write into s's kwargs or options) leaves the contents of
\* d's kwargs and options as they were before the mutation.
C2_CloneIndependent ==
    (ret.op \in CloneMutations /\ ret.self = env["s"]) =>
        /\ Contents(heap, env["x"]).kwargs = Contents(pre, env["x"]).kwargs
        /\ Contents(heap, env["x"]).options = Contents(pre, env["x"]).options

\* C5: after c2 = c.clone() of a chord with a body, a mutation of c2 or of
\* c2's body leaves the body of c (its args, kwargs and options, link lists
\* included) unchanged; cloning a bodiless chord completes and yields a
\* bodiless chord.
C5_ChordBodyIndependent ==
    (Cloned /\ heap.sigs[env["x"]].cls = "chord") =>
        /\ (ret.op \in CloneMutations /\ chord_body(pre, env["x"]) # None) =>
                /\ chord_body(heap, env["x"]) = chord_body(pre, env["x"])
                /\ Contents(heap, chord_body(heap, env["x"])) =
                        Contents(pre, chord_body(pre, env["x"]))
        /\ (ret.op = "clone" /\ chord_body(pre, env["x"]) = None) =>
                /\ ret.err = ""
                /\ heap.sigs[ret.val].cls = "chord"
                /\ chord_body(heap, ret.val) = None

\* C6: invoking a group hands prepare clones that share nothing with the
\* stored members: after any invocation every stored member's args, kwargs
\* and options are what they were before it (so no member carries a
\* correlation id from an earlier invocation).
C6_GroupMembersUntouched ==
    ret.op = "group_call" =>
        LET members == pre.seqs[pre.sigs[ret.self].tasks].items IN
        /\ ret.err = ""
        /\ \A i \in 1..Len(members) :
            /\ ret.handed[i] # members[i]
            /\ Contents(heap, members[i]) = Contents(pre, members[i])

\* ------------------------------------------------------------ SpecChord
\* A chord x (with the body b, or without one), b with or without a
\* correlation id of its own, and CELERY_ALWAYS_EAGER either way; then
\* invocations x(body, **options), body None or the descriptor c.
InitChord ==
    /\ \E v \in {"chord", "chord_nobody"}, opts \in PartialFns(OptKeys, {1}),
          bopts \in PartialFns({"task_id"}, {1}) :
        \E M \in {Members} :
            \E x \in {Construct(M, v, opts)} :
                Start(set_of(x.H, M.b, <<>>, bopts).H,
                      ("x" :> x.val) @@ ("a" :> M.a) @@ ("b" :> M.b)
                      @@ ("c" :> M.c))
    /\ eager \in BOOLEAN

ChordCall ==
    /\ ret.n < MaxOps
    /\ ret.op = "chord_call" => ret.err = ""
    /\ \E body \in {None, env["c"]}, opts \in PartialFns(OptKeys, {2}) :
        \E r \in {chord_call(heap, env["x"], body, opts, eager)} :
            /\ Step(r, [op |-> "chord_call", n |-> ret.n + 1,
                        self |-> env["x"], body |-> body, options |-> opts,
                        val |-> r.val, err |-> r.err, calls |-> r.calls])
            /\ calls' = calls \o r.calls
    /\ UNCHANGED <<env, hist, eager>>

NextChord == ChordCall

SpecChord == InitChord /\ [][NextChord]_vars

\* The body an invocation runs with: the one passed, else the stored one.
EffectiveBody(H, self, body) ==
    IF body # None THEN body ELSE chord_body(H, self)

\* C9: with the eager toggle off, invoking a chord that has a body calls the
\* chord collaborator exactly once, with the header, the body and the
\* invocation's options; the body then carries a correlation id (the one it
\* had, else a fresh one) and the result handle is keyed by that id.  With
\* the toggle on the collaborator is not called and the chord is applied
\* locally.
C9_ChordInvocation ==
    (/\ ret.op = "chord_call"
     /\ EffectiveBody(pre, ret.self, ret.body) # None) =>
        LET b == EffectiveBody(pre, ret.self, ret.body)
            was == pre.dicts[pre.sigs[b].options]
            now == heap.dicts[heap.sigs[b].options]
        IN IF eager
           THEN /\ Len(ret.calls) = 1
                /\ ret.calls[1].to = "task.apply"
           ELSE /\ ret.err = ""
                /\ Len(ret.calls) = 1
                /\ ret.calls[1].to = "Chord"
                /\ ret.calls[1].kwargs["header"] =
                        pre.dicts[pre.sigs[ret.self].kwargs]["header"]
                /\ ret.calls[1].kwargs["body"] = b
                /\ \A k \in DOMAIN ret.options :
                        /\ k \in DOMAIN ret.calls[1].kwargs
                        /\ ret.calls[1].kwargs[k] = ret.options[k]
                /\ "task_id" \in DOMAIN now
                /\ "task_id" \in DOMAIN was => now["task_id"] = was["task_id"]
                /\ "task_id" \notin DOMAIN was => now["task_id"] < 0
                /\ ret.calls[1].body_id = now["task_id"]
                /\ ret.val = now["task_id"]

====
